---- MODULE Spec2Model ----
(***************************************************************************)
(* A model of the interactive command interpreter: the prompt loop of      *)
(* main.rs, the tokenizer and the command-tree parser of parser.rs and the *)
(* execution of the tree of commands.rs.                                   *)
(*                                                                         *)
(* A string is a sequence of one-character strings, so that tokenizing,    *)
(* path joining and message formatting are computed as the code computes   *)
(* them. An Option<T> of the environment is a sequence of length 0 (None)  *)
(* or 1 (Some).                                                            *)
(***************************************************************************)
EXTENDS Integers, Sequences, FiniteSets, TLC

VARIABLES
    pc,             \* position of the prompt loop
    home,           \* env HOME: <<>> when unset, <<value>> when set
    path,           \* env PATH: <<>> when unset, <<list of directories>> when set
    cwd,            \* process working directory (absolute path)
    files,          \* regular files that exist (absolute paths)
    line,           \* the line returned by readline
    input,          \* transform_input: input.trim()
    i,              \* transform_input: position of the char iterator
    output,         \* transform_input: output
    current_string, \* transform_input: current_string
    quote_state,    \* transform_input: quote_state
    escaped,        \* transform_input: escaped
    command_parts,  \* parse_redirect: command_parts
    out_path,       \* parse_redirect: out_path
    err_path,       \* parse_redirect: err_path
    command,        \* the Option<Command> returned by parse_input
    written,        \* lines written by the command being run, in order
    opened,         \* redirect targets opened by the command being run
    spawned,        \* processes spawned by the command being run
    pipe            \* the Pipe node being run: the engine, its two stages, the OS pipe

vars == <<pc, home, path, cwd, files, line, input, i, output, current_string,
          quote_state, escaped, command_parts, out_path, err_path, command,
          written, opened, spawned, pipe>>

tokvars == <<input, i, output, current_string, quote_state, escaped>>
parsevars == <<command_parts, out_path, err_path, command>>
runvars == <<written, opened, spawned, pipe>>
envvars == <<home, path>>

-----------------------------------------------------------------------------
(* Bounds of the model *)

\* longest line of the exhaustive character-level input
MaxLen == 4
\* longest token sequence of the pipeline inputs
MaxPipeParts == 5
\* longest token sequence of the redirection inputs
MaxRedirParts == 5
\* longest token sequence of the inputs that mix pipes and redirections
MaxMixParts == 5
\* largest number of arguments of the single-command inputs
MaxArgs == 3
\* largest number of targets of the type inputs
MaxTypeArgs == 3
\* largest number of chunks the left stage of a pipeline writes
MaxOutput == 4
\* number of chunks the buffer of an OS pipe holds
PipeCap == 2

-----------------------------------------------------------------------------
(* Characters and string literals *)

SQ == "'"
DQ == "\""
BSL == "\\"
TILDE == "~"
SP == " "

S_exit == <<"e", "x", "i", "t">>
S_echo == <<"e", "c", "h", "o">>
S_type == <<"t", "y", "p", "e">>
S_pwd == <<"p", "w", "d">>
S_cd == <<"c", "d">>
S_TooMany == <<":", " ", "t", "o", "o", " ", "m", "a", "n", "y", " ", "a", "r", "g", "u", "m", "e", "n", "t", "s">>
S_NoSuchFile == <<":", " ", "N", "o", " ", "s", "u", "c", "h", " ", "f", "i", "l", "e", " ", "o", "r", " ", "d", "i", "r", "e", "c", "t", "o", "r", "y">>
S_NotADir == <<":", " ", "N", "o", "t", " ", "a", " ", "d", "i", "r", "e", "c", "t", "o", "r", "y">>
S_NotFoundCmd == <<":", " ", "c", "o", "m", "m", "a", "n", "d", " ", "n", "o", "t", " ", "f", "o", "u", "n", "d">>
S_IsBuiltin == <<" ", "i", "s", " ", "a", " ", "s", "h", "e", "l", "l", " ", "b", "u", "i", "l", "t", "i", "n">>
S_Is == <<" ", "i", "s", " ">>
S_NotFound == <<":", " ", "n", "o", "t", " ", "f", "o", "u", "n", "d">>
S_invalid == <<"i", "n", "v", "a", "l", "i", "d", "_", "c", "o", "m", "m", "a", "n", "d">>
S_colon == <<":", " ">>

-----------------------------------------------------------------------------
(* The environment the interpreter is started in *)

HomeU == <<"/", "h", "o", "m", "e", "/", "u">>
P_root == <<"/">>
P_home == <<"/", "h", "o", "m", "e">>
P_h == <<"/", "h">>
P_b == <<"/", "b">>
P_u == <<"/", "u">>
P_d == <<"/", "d">>
P_f == <<"/", "f">>
P_n == <<"/", "n">>
P_bx == <<"/", "b", "/", "x">>
P_ux == <<"/", "u", "/", "x">>
P_ucd == <<"/", "u", "/", "c", "d">>

\* the directories that exist
Dirs == {P_root, P_home, HomeU, P_h, P_b, P_u, P_d}

\* the values HOME is started with
Homes == {HomeU, P_h}

-----------------------------------------------------------------------------
(* transform_input: the tokenizer *)

Max(S) == CHOOSE x \in S : \A y \in S : y <= x
Min(S) == CHOOSE x \in S : \A y \in S : x <= y

IsAsciiWhitespace(c) == c \in {" ", "\t", "\n", "\r", "\f"}

\* str::trim: the slice between the first and the last non-whitespace char
Trim(s) ==
    LET keep == {k \in 1..Len(s) : ~IsAsciiWhitespace(s[k])}
    IN  IF keep = {} THEN <<>> ELSE SubSeq(s, Min(keep), Max(keep))

\* mutant: the token is pushed without the check of its length
PushToken_Unchecked(out, cur) == Append(out, cur)

\* output.push(current_string) guarded by current_string.len() > 0
PushToken(out, cur) == IF Len(cur) > 0 THEN Append(out, cur) ELSE out

\* mutant: an escaped '~' is expanded like an unescaped one
PushEscapedNone_Expand(cur, ch) == IF ch = TILDE THEN cur \o home[1] ELSE Append(cur, ch)

\* mutant: the escape of the double-quoted state is applied outside quotes
PushEscapedNone_Narrow(cur, ch) ==
    IF ch \in {DQ, BSL} THEN Append(cur, ch) ELSE Append(Append(cur, BSL), ch)

\* QuoteState::None with the escape flag set: the char is pushed as it is
PushEscapedNone(cur, ch) == Append(cur, ch)

\* QuoteState::None, '~': push_str(home)
PushHome(cur, h) == cur \o h

\* mutant: the backslash is dropped whatever it stands before
PushEscapedDouble_Wide(cur, ch) == Append(cur, ch)

\* QuoteState::Double with the escape flag set
PushEscapedDouble(cur, ch) ==
    IF ch \in {DQ, BSL} THEN Append(cur, ch) ELSE Append(Append(cur, BSL), ch)

\* QuoteState::Single: the state after one char
NextSingle_KeepQuote(cur, ch) ==
    IF ch = SQ THEN [quote_state |-> "None", current_string |-> Append(cur, ch)]
    ELSE [quote_state |-> "Single", current_string |-> Append(cur, ch)]

NextSingle(cur, ch) ==
    IF ch = SQ THEN [quote_state |-> "None", current_string |-> cur]
    ELSE [quote_state |-> "Single", current_string |-> Append(cur, ch)]

TransformBegin ==
    /\ pc = "transform_input"
    /\ IF home = <<>>
       THEN /\ pc' = "panicked"
            /\ UNCHANGED tokvars
       ELSE /\ pc' = "chars"
            /\ input' = Trim(line)
            /\ i' = 1
            /\ output' = <<>>
            /\ current_string' = <<>>
            /\ quote_state' = "None"
            /\ escaped' = FALSE
    /\ UNCHANGED <<envvars, cwd, files, line, parsevars, runvars>>

CharNone ==
    /\ pc = "chars"
    /\ i <= Len(input)
    /\ quote_state = "None"
    /\ LET ch == input[i] IN
       IF escaped
       THEN /\ current_string' = PushEscapedNone(current_string, ch)
            /\ escaped' = FALSE
            /\ UNCHANGED <<output, quote_state>>
       ELSE IF IsAsciiWhitespace(ch)
       THEN /\ output' = PushToken(output, current_string)
            /\ current_string' = <<>>
            /\ UNCHANGED <<quote_state, escaped>>
       ELSE CASE ch = SQ ->
                 /\ quote_state' = "Single"
                 /\ UNCHANGED <<output, current_string, escaped>>
              [] ch = DQ ->
                 /\ quote_state' = "Double"
                 /\ UNCHANGED <<output, current_string, escaped>>
              [] ch = TILDE ->
                 /\ current_string' = PushHome(current_string, home[1])
                 /\ UNCHANGED <<output, quote_state, escaped>>
              [] ch = BSL ->
                 /\ escaped' = TRUE
                 /\ UNCHANGED <<output, current_string, quote_state>>
              [] OTHER ->
                 /\ current_string' = Append(current_string, ch)
                 /\ UNCHANGED <<output, quote_state, escaped>>
    /\ i' = i + 1
    /\ UNCHANGED <<pc, envvars, cwd, files, line, input, parsevars, runvars>>

CharSingle ==
    /\ pc = "chars"
    /\ i <= Len(input)
    /\ quote_state = "Single"
    /\ LET n == NextSingle(current_string, input[i]) IN
       /\ quote_state' = n.quote_state
       /\ current_string' = n.current_string
    /\ i' = i + 1
    /\ UNCHANGED <<pc, envvars, cwd, files, line, input, output, escaped,
                   parsevars, runvars>>

CharDouble ==
    /\ pc = "chars"
    /\ i <= Len(input)
    /\ quote_state = "Double"
    /\ LET ch == input[i] IN
       IF escaped
       THEN /\ current_string' = PushEscapedDouble(current_string, ch)
            /\ escaped' = FALSE
            /\ UNCHANGED quote_state
       ELSE CASE ch = DQ ->
                 /\ quote_state' = "None"
                 /\ UNCHANGED <<current_string, escaped>>
              [] ch = BSL ->
                 /\ escaped' = TRUE
                 /\ UNCHANGED <<current_string, quote_state>>
              [] OTHER ->
                 /\ current_string' = Append(current_string, ch)
                 /\ UNCHANGED <<quote_state, escaped>>
    /\ i' = i + 1
    /\ UNCHANGED <<pc, envvars, cwd, files, line, input, output, parsevars, runvars>>

\* mutant: the end of the line inside quotes or after a backslash is an error
TransformEnd_Strict ==
    /\ pc = "chars"
    /\ i > Len(input)
    /\ IF quote_state # "None" \/ escaped
       THEN /\ pc' = "panicked"
            /\ UNCHANGED <<output, command_parts>>
       ELSE /\ output' = PushToken(output, current_string)
            /\ command_parts' = output'
            /\ pc' = "parse_redirect"
    /\ UNCHANGED <<envvars, cwd, files, line, input, i, current_string, quote_state,
                   escaped, out_path, err_path, command, runvars>>


\* the end of the loop: the pending token is flushed and output is returned
\* to parse_input, which hands it to parse_redirect
TransformEnd ==
    /\ pc = "chars"
    /\ i > Len(input)
    /\ output' = PushToken(output, current_string)
    /\ command_parts' = output'
    /\ pc' = "parse_redirect"
    /\ UNCHANGED <<envvars, cwd, files, line, input, i, current_string, quote_state,
                   escaped, out_path, err_path, command, runvars>>

-----------------------------------------------------------------------------
(* Paths and the file system *)

IsAbsolute(p) == Len(p) > 0 /\ p[1] = "/"

\* Path::join: an absolute argument replaces the base
Join(dir, name) ==
    IF IsAbsolute(name) THEN name
    ELSE IF Len(dir) = 0 THEN name
    ELSE IF dir[Len(dir)] = "/" THEN dir \o name
    ELSE dir \o <<"/">> \o name

\* a relative path is looked up from the working directory
Resolve(wd, p) == IF Len(p) = 0 THEN p ELSE Join(wd, p)

IsFile(p, env) == Resolve(env.cwd, p) \in env.files
IsDir(p, env) == Resolve(env.cwd, p) \in Dirs
Exists(p, env) == IsFile(p, env) \/ IsDir(p, env)

\* Path::file_name: the last component
FileName(p) ==
    LET sl == {k \in 1..Len(p) : p[k] = "/"}
    IN  IF sl = {} THEN p ELSE SubSeq(p, Max(sl) + 1, Len(p))

\* Path::parent of an absolute path
Parent(p) ==
    LET sl == {k \in 1..Len(p) : p[k] = "/"}
    IN  IF sl = {} THEN <<>> ELSE IF Max(sl) = 1 THEN P_root ELSE SubSeq(p, 1, Max(sl) - 1)

\* env::split_paths: the PATH string cut at every ':'
RECURSIVE SplitPaths(_)
SplitPaths(s) ==
    LET c == {k \in 1..Len(s) : s[k] = ":"}
    IN  IF c = {} THEN <<s>>
        ELSE <<SubSeq(s, 1, Min(c) - 1)>> \o SplitPaths(SubSeq(s, Min(c) + 1, Len(s)))

-----------------------------------------------------------------------------
(* The Command tree *)

NoneCmd == [tag |-> "None"]
Panic == [tag |-> "Panic"]
Exit == [tag |-> "Exit"]
Echo(args) == [tag |-> "Echo", args |-> args]
Type(cmds) == [tag |-> "Type", cmds |-> cmds]
PWD == [tag |-> "PWD"]
CD(args) == [tag |-> "CD", args |-> args]
Executable(p, args) == [tag |-> "Executable", path |-> p, args |-> args]
InvalidCommand(name) == [tag |-> "InvalidCommand", name |-> name]
Pipe(l, r) == [tag |-> "Pipe", left |-> l, right |-> r]
Redirect(o, e, c) == [tag |-> "Redirect", out |-> o, err |-> e, inner |-> c]

IsSome(c) == c.tag \notin {"None", "Panic"}

RNone == [kind |-> "None", path |-> <<>>]
Truncate(p) == [kind |-> "Truncate", path |-> p]
AppendTo(p) == [kind |-> "Append", path |-> p]

\* RedirectType::is_some
is_some(r) == r.kind # "None"

Tail2(s) == SubSeq(s, 2, Len(s))

-----------------------------------------------------------------------------
(* parse_command: the command resolver *)

\* mutant: the loop does not stop at the first match, so the last one is kept
RECURSIVE SearchPath_Last(_, _, _, _, _)
SearchPath_Last(dirs, k, name, args, env) ==
    IF k > Len(dirs) THEN InvalidCommand(name)
    ELSE LET later == SearchPath_Last(dirs, k + 1, name, args, env)
         IN  IF later.tag = "Executable" THEN later
             ELSE IF IsFile(Join(dirs[k], name), env)
                  THEN Executable(Join(dirs[k], name), args)
                  ELSE later

\* the loop over env::split_paths(PATH): the first directory whose join with
\* the name is a regular file, from directory k on
RECURSIVE SearchPath(_, _, _, _, _)
SearchPath(dirs, k, name, args, env) ==
    IF k > Len(dirs) THEN InvalidCommand(name)
    ELSE IF IsFile(Join(dirs[k], name), env)
         THEN Executable(Join(dirs[k], name), args)
         ELSE SearchPath(dirs, k + 1, name, args, env)

\* the `_` arm of parse_command
ResolveExternal(parts, env) ==
    IF env.path = <<>> THEN Panic
    ELSE SearchPath(SplitPaths(env.path[1]), 1, parts[1], Tail2(parts), env)

\* the arms of parse_command that need no recursion
ResolveSimple(parts, env) ==
    CASE parts[1] = S_exit -> Exit
      [] parts[1] = S_echo -> Echo(Tail2(parts))
      [] parts[1] = S_pwd -> PWD
      [] parts[1] = S_cd -> CD(Tail2(parts))
      [] OTHER -> ResolveExternal(parts, env)

\* the "type" arm: every remaining token resolved as a one-token command
ResolveType(parts, env) ==
    LET one(cp) == IF cp = S_type THEN Type(<<>>) ELSE ResolveSimple(<<cp>>, env)
        cmds == [k \in 1..(Len(parts) - 1) |-> one(parts[k + 1])]
    IN  IF \E k \in 1..Len(cmds) : cmds[k].tag = "Panic" THEN Panic ELSE Type(cmds)

parse_command(parts, env) ==
    IF Len(parts) < 1 THEN NoneCmd
    ELSE IF parts[1] = S_type THEN ResolveType(parts, env)
    ELSE ResolveSimple(parts, env)

-----------------------------------------------------------------------------
(* parse_pipe: the pipe splitter *)

T_pipe == <<"|">>

\* mutant: the split is made at the leftmost "|"
PipeIndex_Leftmost(parts) ==
    LET ps == {k \in 1..Len(parts) : parts[k] = T_pipe}
    IN  IF ps = {} THEN 0 ELSE Min(ps)

\* the index the split is made at: rposition of "|" (0 when there is none)
PipeIndex(parts) ==
    LET ps == {k \in 1..Len(parts) : parts[k] = T_pipe}
    IN  IF ps = {} THEN 0 ELSE Max(ps)

\* mutant: an empty side of a "|" is dropped and the other side is returned
RECURSIVE parse_pipe_Lenient(_, _)
parse_pipe_Lenient(parts, env) ==
    LET p == PipeIndex(parts) IN
    IF p = 0 THEN parse_command(parts, env)
    ELSE LET l == parse_pipe_Lenient(SubSeq(parts, 1, p - 1), env)
             r == parse_command(SubSeq(parts, p + 1, Len(parts)), env)
         IN  IF l.tag = "Panic" \/ r.tag = "Panic" THEN Panic
             ELSE IF ~IsSome(l) THEN r
             ELSE IF ~IsSome(r) THEN l
             ELSE Pipe(l, r)

RECURSIVE parse_pipe(_, _)
parse_pipe(parts, env) ==
    LET p == PipeIndex(parts) IN
    IF p = 0 THEN parse_command(parts, env)
    ELSE LET l == parse_pipe(SubSeq(parts, 1, p - 1), env)
             r == parse_command(SubSeq(parts, p + 1, Len(parts)), env)
         IN  IF ~IsSome(l) \/ ~IsSome(r) THEN Panic ELSE Pipe(l, r)

-----------------------------------------------------------------------------
(* parse_redirect: the redirection extractor *)

T_gt == <<">">>
T_1gt == <<"1", ">">>
T_gtgt == <<">", ">">>
T_1gtgt == <<"1", ">", ">">>
T_2gt == <<"2", ">">>
T_2gtgt == <<"2", ">", ">">>

\* mutant: a spec that is already set is not overwritten (first occurrence wins)
ScanStep_FirstWins(parts, k, acc) ==
    LET t == parts[k]
        isop == t \in {T_gt, T_1gt, T_gtgt, T_1gtgt, T_2gt, T_2gtgt}
    IN  IF ~isop
        THEN [acc EXCEPT !.keep = Append(@, acc.keep_next), !.keep_next = TRUE]
        ELSE IF k + 1 > Len(parts)
        THEN [acc EXCEPT !.panic = TRUE]
        ELSE LET nxt == parts[k + 1]
                 a == CASE t \in {T_gt, T_1gt} /\ ~is_some(acc.out) -> [acc EXCEPT !.out = Truncate(nxt)]
                        [] t \in {T_gtgt, T_1gtgt} /\ ~is_some(acc.out) -> [acc EXCEPT !.out = AppendTo(nxt)]
                        [] t = T_2gt /\ ~is_some(acc.err) -> [acc EXCEPT !.err = Truncate(nxt)]
                        [] t = T_2gtgt /\ ~is_some(acc.err) -> [acc EXCEPT !.err = AppendTo(nxt)]
                        [] OTHER -> acc
             IN  [a EXCEPT !.keep = Append(@, FALSE), !.keep_next = FALSE]

\* mutant: an operator that is the last token is dropped without a panic
ScanStep_IgnoreTrailing(parts, k, acc) ==
    LET t == parts[k]
        isop == t \in {T_gt, T_1gt, T_gtgt, T_1gtgt, T_2gt, T_2gtgt}
    IN  IF ~isop
        THEN [acc EXCEPT !.keep = Append(@, acc.keep_next), !.keep_next = TRUE]
        ELSE IF k + 1 > Len(parts)
        THEN [acc EXCEPT !.keep = Append(@, FALSE), !.keep_next = FALSE]
        ELSE LET nxt == parts[k + 1]
                 a == CASE t \in {T_gt, T_1gt} -> [acc EXCEPT !.out = Truncate(nxt)]
                        [] t \in {T_gtgt, T_1gtgt} -> [acc EXCEPT !.out = AppendTo(nxt)]
                        [] t = T_2gt -> [acc EXCEPT !.err = Truncate(nxt)]
                        [] OTHER -> [acc EXCEPT !.err = AppendTo(nxt)]
             IN  [a EXCEPT !.keep = Append(@, FALSE), !.keep_next = FALSE]

\* one iteration of the loop of parse_redirect on command_parts[k]
ScanStep(parts, k, acc) ==
    LET t == parts[k]
        isop == t \in {T_gt, T_1gt, T_gtgt, T_1gtgt, T_2gt, T_2gtgt}
    IN  IF ~isop
        THEN [acc EXCEPT !.keep = Append(@, acc.keep_next), !.keep_next = TRUE]
        ELSE IF k + 1 > Len(parts)
        THEN [acc EXCEPT !.panic = TRUE]
        ELSE LET nxt == parts[k + 1]
                 a == CASE t \in {T_gt, T_1gt} -> [acc EXCEPT !.out = Truncate(nxt)]
                        [] t \in {T_gtgt, T_1gtgt} -> [acc EXCEPT !.out = AppendTo(nxt)]
                        [] t = T_2gt -> [acc EXCEPT !.err = Truncate(nxt)]
                        [] OTHER -> [acc EXCEPT !.err = AppendTo(nxt)]
             IN  [a EXCEPT !.keep = Append(@, FALSE), !.keep_next = FALSE]

RECURSIVE Scan(_, _, _)
Scan(parts, k, acc) ==
    IF k > Len(parts) \/ acc.panic THEN acc
    ELSE Scan(parts, k + 1, ScanStep(parts, k, acc))

ScanInit == [out |-> RNone, err |-> RNone, keep |-> <<>>, keep_next |-> TRUE,
             panic |-> FALSE]

\* command_parts.retain(|_| *keep_iter.next().unwrap())
RECURSIVE Retain(_, _)
Retain(parts, keep) ==
    IF parts = <<>> THEN <<>>
    ELSE (IF Head(keep) THEN <<Head(parts)>> ELSE <<>>) \o Retain(Tail(parts), Tail(keep))

\* mutant: the Redirect node is put around every pipeline
wrap_redirect_Always(o, e, c) ==
    IF c.tag = "Panic" THEN Panic
    ELSE IF c.tag = "None" THEN (IF is_some(o) \/ is_some(e) THEN Panic ELSE c)
    ELSE Redirect(o, e, c)

\* the end of parse_redirect: the Redirect node is put around the pipeline
wrap_redirect(o, e, c) ==
    IF c.tag = "Panic" THEN Panic
    ELSE IF is_some(o) \/ is_some(e)
         THEN (IF c.tag = "None" THEN Panic ELSE Redirect(o, e, c))
         ELSE c

Env == [path |-> path, cwd |-> cwd, files |-> files, home |-> home]

\* parse_redirect as a whole: the tree of a token sequence
TreeOf(parts, env) ==
    LET r == Scan(parts, 1, ScanInit) IN
    IF r.panic THEN Panic
    ELSE wrap_redirect(r.out, r.err, parse_pipe(Retain(parts, r.keep), env))

\* parse_redirect up to the retain: the scan for operators
ExtractRedirects ==
    /\ pc = "parse_redirect"
    /\ LET r == Scan(command_parts, 1, ScanInit) IN
       IF r.panic
       THEN /\ pc' = "panicked"
            /\ UNCHANGED <<command_parts, out_path, err_path>>
       ELSE /\ pc' = "parse_pipe"
            /\ out_path' = r.out
            /\ err_path' = r.err
            /\ command_parts' = Retain(command_parts, r.keep)
    /\ UNCHANGED <<envvars, cwd, files, line, tokvars, command, runvars>>

\* parse_redirect from the call of parse_pipe on: the tree is returned to main
BuildTree ==
    /\ pc = "parse_pipe"
    /\ LET c == wrap_redirect(out_path, err_path, parse_pipe(command_parts, Env)) IN
       IF c.tag = "Panic"
       THEN /\ pc' = "panicked"
            /\ UNCHANGED command
       ELSE /\ pc' = "main"
            /\ command' = c
    /\ UNCHANGED <<envvars, cwd, files, line, tokvars, command_parts, out_path,
                   err_path, runvars>>

-----------------------------------------------------------------------------
(* Command::run: the execution of the tree *)

\* the terminal, as a stream handle; a file handle is <<path>>
Tty == <<>>

\* no Pipe node is being run
NoPipe == [phase |-> "none", left |-> "new", right |-> "new", buf |-> 0, todo |-> 0,
           total |-> 0, reader |-> "eof"]

\* args.join(" ")
RECURSIVE JoinSp(_)
JoinSp(args) ==
    IF Len(args) = 0 THEN <<>>
    ELSE IF Len(args) = 1 THEN args[1]
    ELSE args[1] \o <<" ">> \o JoinSp(Tail(args))

\* Command::name
name(c) ==
    CASE c.tag = "Exit" -> S_exit
      [] c.tag = "Echo" -> S_echo
      [] c.tag = "Type" -> S_type
      [] c.tag = "PWD" -> S_pwd
      [] c.tag = "CD" -> S_cd
      [] c.tag = "Executable" -> FileName(c.path)
      [] OTHER -> S_invalid

\* mutant: for an executable the file name is printed in place of the full path
type_NameOnly(c) ==
    CASE c.tag \in {"Echo", "Exit", "Type", "PWD", "CD"} -> name(c) \o S_IsBuiltin
      [] c.tag = "Executable" -> name(c) \o S_Is \o name(c)
      [] OTHER -> Trim(c.name) \o S_NotFound

\* Command::type: the line `type` prints for one resolved target
type(c) ==
    CASE c.tag \in {"Echo", "Exit", "Type", "PWD", "CD"} -> name(c) \o S_IsBuiltin
      [] c.tag = "Executable" -> name(c) \o S_Is \o c.path
      [] OTHER -> Trim(c.name) \o S_NotFound

\* writeln!(handle, ...)
WriteLn(st, stream, handle, text) ==
    [st EXCEPT !.written = Append(@, [stream |-> stream, to |-> handle, text |-> text])]

\* Command::Type: one line per target, in order
RunType(c, o, st) ==
    IF \E k \in 1..Len(c.cmds) : c.cmds[k].tag \in {"Pipe", "Redirect"}
    THEN [st EXCEPT !.status = "panicked"]
    ELSE [st EXCEPT !.written =
            @ \o [k \in 1..Len(c.cmds) |->
                    [stream |-> "out", to |-> o, text |-> type(c.cmds[k])]]]

\* the check of the argument count of Command::CD
TooManyArgs(args) == Len(args) > 2

\* mutant: Command::CD without the check that the path is a directory
RunCd_NoDirCheck(c, e, st) ==
    IF TooManyArgs(c.args)
    THEN WriteLn(st, "err", e, name(c) \o S_TooMany)
    ELSE IF Len(c.args) = 0 /\ st.home = <<>>
    THEN [st EXCEPT !.status = "panicked"]
    ELSE LET path_str == IF Len(c.args) > 0 THEN c.args[1] ELSE st.home[1]
             env == [cwd |-> st.cwd, files |-> st.files]
         IN  IF ~Exists(path_str, env)
             THEN WriteLn(st, "err", e, name(c) \o S_colon \o path_str \o S_NoSuchFile)
             ELSE [st EXCEPT !.cwd = Resolve(st.cwd, path_str)]

\* Command::CD
RunCd(c, e, st) ==
    IF TooManyArgs(c.args)
    THEN WriteLn(st, "err", e, name(c) \o S_TooMany)
    ELSE IF Len(c.args) = 0 /\ st.home = <<>>
    THEN [st EXCEPT !.status = "panicked"]
    ELSE LET path_str == IF Len(c.args) > 0 THEN c.args[1] ELSE st.home[1]
             env == [cwd |-> st.cwd, files |-> st.files]
         IN  IF ~Exists(path_str, env)
             THEN WriteLn(st, "err", e, name(c) \o S_colon \o path_str \o S_NoSuchFile)
             ELSE IF ~IsDir(path_str, env)
             THEN WriteLn(st, "err", e, name(c) \o S_colon \o path_str \o S_NotADir)
             ELSE [st EXCEPT !.cwd = Resolve(st.cwd, path_str)]

\* Command::Executable: spawn by name, then wait
RunExecutable(c, o, e, st, ok) ==
    IF ~ok THEN [st EXCEPT !.status = "panicked"]
    ELSE [st EXCEPT !.spawned =
            Append(@, [prog |-> name(c), args |-> c.args, out |-> o, err |-> e])]

\* RedirectType::as_io: the handle a redirect spec is opened as
OpenRedirect(r, st) ==
    IF ~is_some(r) \/ st.status # "ok" THEN [st |-> st, handle |-> Tty]
    ELSE LET p == Resolve(st.cwd, r.path) IN
         IF p \in Dirs \/ Parent(p) \notin Dirs
         THEN [st |-> [st EXCEPT !.status = "panicked"], handle |-> Tty]
         ELSE [st |-> [st EXCEPT !.files = @ \cup {p},
                                 !.opened = Append(@, [path |-> p, mode |-> r.kind])],
               handle |-> <<p>>]

\* the arms of Command::run that run no other command
RunLeaf(c, o, e, st, ok) ==
    CASE c.tag = "Exit" -> [st EXCEPT !.status = "exited"]
      [] c.tag = "Echo" -> WriteLn(st, "out", o, JoinSp(c.args))
      [] c.tag = "Type" -> RunType(c, o, st)
      [] c.tag = "PWD" -> WriteLn(st, "out", o, st.cwd)
      [] c.tag = "CD" -> RunCd(c, e, st)
      [] c.tag = "Executable" -> RunExecutable(c, o, e, st, ok)
      [] OTHER -> WriteLn(st, "err", e, Trim(c.name) \o S_NotFoundCmd)

\* the stream a Pipe node puts between its two stages
PipeEnd == <<<<"|">>>>

RECURSIVE run(_, _, _, _, _)
\* Command::Pipe: the left stage writes into the pipe, the right stage writes
\* to the stdout of the node; both share its stderr
RunPipe(c, o, e, st, ok) ==
    LET l == run(c.left, PipeEnd, e, st, ok)
    IN  IF l.status # "ok" THEN l ELSE run(c.right, o, e, l, ok)

\* Command::Redirect: both targets are opened, then the inner command runs
RunRedirect(c, st, ok) ==
    LET a == OpenRedirect(c.out, st)
        b == OpenRedirect(c.err, a.st)
    IN  IF b.st.status # "ok" THEN b.st ELSE run(c.inner, a.handle, b.handle, b.st, ok)

run(c, o, e, st, ok) ==
    CASE c.tag = "Pipe" -> RunPipe(c, o, e, st, ok)
      [] c.tag = "Redirect" -> RunRedirect(c, st, ok)
      [] OTHER -> RunLeaf(c, o, e, st, ok)

-----------------------------------------------------------------------------
(* main: the prompt loop *)

Alphabet == {"c", "d", SP, SQ, DQ, BSL, TILDE}

\* the line of the tokenizer example of the specification
C4Line == <<"e", "c", "h", "o", " ", "'", "a", " ", "b", "'", " ", "\"", "c", "\\", "\"", "d", "\"", " ", "\\", "~", "x">>

\* lines with an operator written plainly, inside quotes and after a backslash:
\* `echo > f`, `echo '>' f`, `echo ">" f`, `echo \> f`, `x | c`, `x "|" c`
EchoTo(op) == <<"e", "c", "h", "o", SP>> \o op \o <<SP, "f">>
PlainGtLine == EchoTo(<<">">>)
QuotedGtLines == {EchoTo(<<SQ, ">", SQ>>), EchoTo(<<DQ, ">", DQ>>), EchoTo(<<BSL, ">">>)}
PlainPipeLine == <<"x", SP, "|", SP, "c">>
QuotedPipeLine == <<"x", SP, DQ, "|", DQ, SP, "c">>
OperatorLines == {PlainGtLine, PlainPipeLine, QuotedPipeLine} \cup QuotedGtLines

Lines == UNION {[1..n -> Alphabet] : n \in 0..MaxLen} \cup {C4Line} \cup OperatorLines

DefaultPath == <<"/", "b", ":", "/", "u">>
DefaultFiles == {P_f, P_bx, P_ux}

\* editor.readline("$ ") returns a line
ReadLine ==
    /\ pc = "readline"
    /\ \E l \in Lines : line' = l
    /\ pc' = "transform_input"
    /\ UNCHANGED <<envvars, cwd, files, tokvars, parsevars, runvars>>

\* editor.readline("$ ") returns an error (end of input, interrupt): unwrap panics
ReadLineError ==
    /\ pc = "readline"
    /\ pc' = "panicked"
    /\ UNCHANGED <<envvars, cwd, files, line, tokvars, parsevars, runvars>>

\* main: parse_input returned None, nothing is run
SkipEmpty ==
    /\ pc = "main"
    /\ ~IsSome(command)
    /\ pc' = "loop"
    /\ UNCHANGED <<envvars, cwd, files, line, tokvars, parsevars, runvars>>

\* main: command.unwrap().run()
RunCommand ==
    /\ pc = "main"
    /\ IsSome(command)
    /\ \E ok \in BOOLEAN :
         LET st0 == [cwd |-> cwd, files |-> files, home |-> home, written |-> <<>>,
                     opened |-> <<>>, spawned |-> <<>>, status |-> "ok"]
             r == run(command, Tty, Tty, st0, ok)
         IN  /\ cwd' = r.cwd
             /\ files' = r.files
             /\ written' = r.written
             /\ opened' = r.opened
             /\ spawned' = r.spawned
             /\ pc' = CASE r.status = "ok" -> "loop"
                        [] r.status = "exited" -> "exited"
                        [] OTHER -> "panicked"
    /\ UNCHANGED <<envvars, line, tokvars, parsevars, pipe>>

\* main: the end of the body of the loop; the locals of the iteration are dropped
NextPrompt ==
    /\ pc = "loop"
    /\ pc' = "readline"
    /\ line' = <<>>
    /\ input' = <<>>
    /\ i' = 1
    /\ output' = <<>>
    /\ current_string' = <<>>
    /\ quote_state' = "None"
    /\ escaped' = FALSE
    /\ command_parts' = <<>>
    /\ out_path' = RNone
    /\ err_path' = RNone
    /\ command' = NoneCmd
    /\ written' = <<>>
    /\ opened' = <<>>
    /\ spawned' = <<>>
    /\ UNCHANGED <<envvars, cwd, files, pipe>>

Init ==
    /\ pc = "readline"
    /\ home \in {<<>>} \cup {<<h>> : h \in Homes}
    /\ path = <<DefaultPath>>
    /\ cwd = P_root
    /\ files = DefaultFiles
    /\ line = <<>>
    /\ input = <<>>
    /\ i = 1
    /\ output = <<>>
    /\ current_string = <<>>
    /\ quote_state = "None"
    /\ escaped = FALSE
    /\ command_parts = <<>>
    /\ out_path = RNone
    /\ err_path = RNone
    /\ command = NoneCmd
    /\ written = <<>>
    /\ opened = <<>>
    /\ spawned = <<>>
    /\ pipe = NoPipe

Next ==
    \/ ReadLine
    \/ ReadLineError
    \/ TransformBegin
    \/ CharNone
    \/ CharSingle
    \/ CharDouble
    \/ TransformEnd
    \/ ExtractRedirects
    \/ BuildTree
    \/ SkipEmpty
    \/ RunCommand
    \/ NextPrompt

Spec == Init /\ [][Next]_vars

-----------------------------------------------------------------------------
(* The parser and the engine on token sequences: parse_input from the point *)
(* where transform_input has returned                                       *)

T_x == <<"x">>
T_y == <<"y">>
T_d == <<"d">>

Seqs(S, n) == UNION {[1..k -> S] : k \in 0..n}

PipeLines == Seqs({T_pipe, S_echo, T_x, T_y}, MaxPipeParts)
RedirLines == Seqs({T_gt, T_1gt, T_gtgt, T_1gtgt, T_2gt, T_2gtgt, T_x, T_y}, MaxRedirParts)
MixLines == Seqs({T_pipe, T_gt, T_2gtgt, T_x, S_echo}, MaxMixParts)
CmdNames == {S_exit, S_echo, S_type, S_pwd, S_cd, T_x, T_y, P_f}
ArgWords == {S_cd, T_x, T_d, P_f, P_n}
CmdLines == {<<c>> \o a : c \in CmdNames, a \in Seqs(ArgWords, MaxArgs)}
TypeWords == {S_exit, S_echo, S_type, S_pwd, S_cd, T_x, T_y, P_f}
TypeLines == {<<S_type>> \o a : a \in Seqs(TypeWords, MaxTypeArgs)}

InitParse ==
    /\ pc = "parse_redirect"
    /\ \/ /\ command_parts \in CmdLines
          /\ home \in {<<h>> : h \in Homes}
          /\ path \in {<<>>, <<DefaultPath>>}
          /\ cwd \in {P_root, P_d}
          /\ files \in {{P_f, P_ucd} \cup x : x \in SUBSET {P_bx, P_ux}}
       \/ /\ command_parts \in TypeLines
          /\ home = <<HomeU>>
          /\ path \in {<<>>, <<DefaultPath>>}
          /\ cwd = P_root
          /\ files \in {{P_f, P_ucd} \cup x : x \in SUBSET {P_bx, P_ux}}
       \/ /\ command_parts \in PipeLines \cup RedirLines \cup MixLines
          /\ home = <<HomeU>>
          /\ path = <<DefaultPath>>
          /\ cwd = P_root
          /\ files = DefaultFiles
    /\ output = command_parts
    /\ line = <<>>
    /\ input = <<>>
    /\ i = 1
    /\ current_string = <<>>
    /\ quote_state = "None"
    /\ escaped = FALSE
    /\ out_path = RNone
    /\ err_path = RNone
    /\ command = NoneCmd
    /\ written = <<>>
    /\ opened = <<>>
    /\ spawned = <<>>
    /\ pipe = NoPipe

NextParse ==
    \/ ExtractRedirects
    \/ BuildTree
    \/ SkipEmpty
    \/ RunCommand

SpecParse == InitParse /\ [][NextParse]_vars

-----------------------------------------------------------------------------
(* Properties of the pipe splitter *)

\* the stages of a token sequence, left to right: the runs between "|" tokens
RECURSIVE Stages(_)
Stages(parts) ==
    LET ps == {k \in 1..Len(parts) : parts[k] = T_pipe}
    IN  IF ps = {} THEN <<parts>>
        ELSE <<SubSeq(parts, 1, Min(ps) - 1)>> \o Stages(SubSeq(parts, Min(ps) + 1, Len(parts)))

AllStagesNonEmpty(parts) == \A k \in 1..Len(Stages(parts)) : Len(Stages(parts)[k]) >= 1

\* the tree whose leaves are the first k stages in input order and in which
\* every Pipe node has a single stage as its right child
RECURSIVE LeftDeep(_, _, _)
LeftDeep(stages, k, env) ==
    IF k = 1 THEN parse_command(stages[1], env)
    ELSE Pipe(LeftDeep(stages, k - 1, env), parse_command(stages[k], env))

\* the command below the Redirect node, if there is one
Pipeline(c) == IF c.tag = "Redirect" THEN c.inner ELSE c

RECURSIVE RightChildrenAreStages(_)
RightChildrenAreStages(c) ==
    c.tag = "Pipe" => (c.right.tag # "Pipe" /\ RightChildrenAreStages(c.left))

\* C1: when the redirection-stripped token sequence has n >= 1 non-empty stages
\* separated by "|" (and PATH is set), parse_pipe returns the left-deep tree: the
\* right child of every Pipe node is a single resolved stage, never a Pipe, and the
\* leaves read left to right are the resolved stages in input order.
C1_LeftDeepPipeline ==
    [][(pc = "parse_pipe" /\ AllStagesNonEmpty(command_parts) /\ path # <<>>)
         => /\ pc' = "main"
            /\ IsSome(command')
            /\ Pipeline(command') = LeftDeep(Stages(command_parts), Len(Stages(command_parts)), Env)
            /\ RightChildrenAreStages(Pipeline(command'))]_vars

\* `x | y | echo` has become Pipe(Pipe(x, y), echo)
C1_Witness ==
    /\ pc = "main"
    /\ command_parts = <<T_x, T_pipe, T_y, T_pipe, S_echo>>
    /\ command = Pipe(Pipe(Executable(P_bx, <<>>), InvalidCommand(T_y)), Echo(<<>>))

-----------------------------------------------------------------------------
(* Properties of the redirection extractor *)

OutOps == {T_gt, T_1gt, T_gtgt, T_1gtgt}
ErrOps == {T_2gt, T_2gtgt}
RedirectOps == OutOps \cup ErrOps

\* every redirect operator is followed by a token that is no operator
OperatorsHaveTargets(parts) ==
    \A k \in 1..Len(parts) :
        parts[k] \in RedirectOps => (k < Len(parts) /\ parts[k + 1] \notin RedirectOps)

\* the spec of the last occurrence of an operator of `ops`
LastSpec(parts, ops) ==
    LET occ == {k \in 1..Len(parts) : parts[k] \in ops}
    IN  IF occ = {} THEN RNone
        ELSE IF parts[Max(occ)] \in {T_gt, T_1gt, T_2gt}
             THEN Truncate(parts[Max(occ) + 1])
             ELSE AppendTo(parts[Max(occ) + 1])

\* the tokens from position k on that are neither an operator nor the token
\* after one
RECURSIVE StrippedFrom(_, _)
StrippedFrom(parts, k) ==
    IF k > Len(parts) THEN <<>>
    ELSE (IF parts[k] \notin RedirectOps /\ (k = 1 \/ parts[k - 1] \notin RedirectOps)
          THEN <<parts[k]>> ELSE <<>>) \o StrippedFrom(parts, k + 1)

\* C2: when every redirect operator is followed by a non-operator token, the scan of
\* parse_redirect ends with the out-spec of the last >, 1>, >>, 1>> (None without
\* one), the err-spec of the last 2>, 2>> (None without one) and the input without
\* the operators and their targets, the other tokens in their order.
C2_LastRedirectWins ==
    [][(pc = "parse_redirect" /\ OperatorsHaveTargets(command_parts))
         => /\ pc' = "parse_pipe"
            /\ out_path' = LastSpec(command_parts, OutOps)
            /\ err_path' = LastSpec(command_parts, ErrOps)
            /\ command_parts' = StrippedFrom(command_parts, 1)]_vars

\* `echo > x > echo`: the second target has replaced the first
C2_Witness ==
    /\ pc = "parse_pipe"
    /\ output = <<S_echo, T_gt, T_x, T_gt, S_echo>>
    /\ out_path = Truncate(S_echo)
    /\ err_path = RNone
    /\ command_parts = <<S_echo>>

\* a node with the tag occurs in the tree
RECURSIVE HasNode(_, _)
HasNode(c, tag) ==
    \/ c.tag = tag
    \/ c.tag = "Pipe" /\ (HasNode(c.left, tag) \/ HasNode(c.right, tag))
    \/ c.tag = "Redirect" /\ HasNode(c.inner, tag)
    \/ c.tag = "Type" /\ \E k \in 1..Len(c.cmds) : HasNode(c.cmds[k], tag)

\* C3: in a tree returned by parse_input a Redirect node is only ever the root, the
\* root is a Redirect exactly when one of the two specs is set, and an input
\* without "|" and without redirect operators gives a tree without Pipe and
\* without Redirect.
C3_RedirectOnlyAtRoot ==
    (pc = "main" /\ IsSome(command)) =>
        /\ ~HasNode(Pipeline(command), "Redirect")
        /\ (command.tag = "Redirect") <=> (is_some(out_path) \/ is_some(err_path))
        /\ (\A k \in 1..Len(output) : output[k] \notin RedirectOps \cup {T_pipe})
              => (~HasNode(command, "Pipe") /\ ~HasNode(command, "Redirect"))

\* `x > echo | echo`: the redirect is around the whole pipeline
C3_Witness ==
    /\ pc = "main"
    /\ output = <<T_x, T_gt, S_echo, T_pipe, S_echo>>
    /\ command = Redirect(Truncate(S_echo), RNone, Pipe(Executable(P_bx, <<>>), Echo(<<>>)))

-----------------------------------------------------------------------------
(* Properties of the tokenizer *)

\* transform_input has returned output
Tokenized == pc = "parse_redirect"

\* the tokenizer is about to take the char input[i]
AtChar(q) == pc = "chars" /\ i <= Len(input) /\ quote_state = q

\* C4, as the specification states it: the example line gives the tokens
\* echo, `a b`, `c"d` and /home/ux.
C4_ExampleExpandsEscapedTilde ==
    (Tokenized /\ line = C4Line /\ home = <<HomeU>>)
        => output = <<S_echo, <<"a", " ", "b">>, <<"c", DQ, "d">>, HomeU \o <<"x">>>>

\* C4, amended: the example line gives the tokens echo, `a b`, `c"d` and ~x, the
\* '~' after the unquoted backslash being kept as it is; an unquoted '~' that is
\* not escaped is replaced by the value of HOME even in the middle of a token.
C4_ExampleKeepsEscapedTilde ==
    Tokenized =>
        /\ (line = C4Line /\ home = <<HomeU>>)
              => output = <<S_echo, <<"a", " ", "b">>, <<"c", DQ, "d">>, <<TILDE, "x">>>>
        /\ line = <<"c", TILDE, "d">> => output = <<<<"c">> \o home[1] \o <<"d">>>>

C4_Witness ==
    /\ Tokenized
    /\ line = C4Line
    /\ home = <<HomeU>>
    /\ Len(output) = 4
    /\ output[4] = <<TILDE, "x">>

\* C5: in the unquoted state a backslash is not emitted and sets the escape flag;
\* the char after it, whatever it is, is appended to the current token and does
\* nothing else: it ends no token, opens no quote, is not expanded and does not
\* set the flag again.
C5_UnquotedEscapeIsLiteral ==
    [][AtChar("None") =>
         /\ escaped => /\ current_string' = Append(current_string, input[i])
                       /\ output' = output
                       /\ quote_state' = "None"
                       /\ ~escaped'
         /\ (~escaped /\ input[i] = BSL) => /\ current_string' = current_string
                                            /\ output' = output
                                            /\ quote_state' = "None"
                                            /\ escaped']_vars

\* `c\ d` is the one token `c d`
C5_Witness ==
    /\ Tokenized
    /\ line = <<"c", BSL, SP, "d">>
    /\ output = <<<<"c", SP, "d">>>>

\* C6: inside double quotes a backslash before '"' or '\' emits that char alone
\* and the quote stays open, a backslash before any other char emits both; inside
\* single quotes every char but "'" is emitted as it is and the escape flag is
\* never set.
C6_QuotedEscapes ==
    [][/\ (AtChar("Double") /\ escaped) =>
             /\ current_string' = (IF input[i] \in {DQ, BSL}
                                   THEN current_string \o <<input[i]>>
                                   ELSE current_string \o <<BSL, input[i]>>)
             /\ quote_state' = "Double"
             /\ ~escaped'
       /\ AtChar("Single") =>
             /\ ~escaped /\ ~escaped'
             /\ input[i] # SQ => /\ current_string' = current_string \o <<input[i]>>
                                 /\ quote_state' = "Single"]_vars

\* `"\c"` is the token `\c`
C6_Witness ==
    /\ Tokenized
    /\ line = <<DQ, BSL, "c", DQ>>
    /\ output = <<<<BSL, "c">>>>

RECURSIVE Flatten(_)
Flatten(ss) == IF ss = <<>> THEN <<>> ELSE Head(ss) \o Flatten(Tail(ss))

RECURSIVE IsSubseq(_, _)
IsSubseq(a, b) ==
    IF a = <<>> THEN TRUE
    ELSE IF b = <<>> THEN FALSE
    ELSE IF Head(a) = Head(b) THEN IsSubseq(Tail(a), Tail(b))
    ELSE IsSubseq(a, Tail(b))

\* the line with the value of HOME written after every '~'
RECURSIVE WithHome(_, _)
WithHome(s, h) ==
    IF s = <<>> THEN <<>>
    ELSE (IF Head(s) = TILDE THEN <<TILDE>> \o h ELSE <<Head(s)>>) \o WithHome(Tail(s), h)

\* C7: no token of the sequence transform_input builds is empty, an empty
\* quoted word standing alone gives no token, and the chars of the tokens occur
\* in the line in the order of the tokens.
C7_TokensNonEmptyInOrder ==
    /\ \A k \in 1..Len(output) : Len(output[k]) > 0
    /\ Tokenized =>
          /\ input \in {<<SQ, SQ>>, <<DQ, DQ>>} => output = <<>>
          /\ IsSubseq(Flatten(output), WithHome(input, home[1]))

\* `'' c`: the empty quoted word is dropped at the space
C7_Witness ==
    /\ Tokenized
    /\ line = <<SQ, SQ, SP, "c">>
    /\ output = <<<<"c">>>>

-----------------------------------------------------------------------------
(* Properties of the command resolver *)

Builtins == {S_exit, S_echo, S_type, S_pwd, S_cd}

\* the directories of PATH, in order, whose join with the name is a regular file
PathHits(first, env) ==
    LET dirs == SplitPaths(env.path[1])
    IN  {k \in 1..Len(dirs) : Resolve(env.cwd, Join(dirs[k], first)) \in env.files}

\* what the search of PATH is to give for a name that is no builtin
FirstOnPath(parts, env) ==
    LET dirs == SplitPaths(env.path[1])
        hits == PathHits(parts[1], env)
    IN  IF hits = {} THEN InvalidCommand(parts[1])
        ELSE Executable(Join(dirs[Min(hits)], parts[1]), Tail(parts))

\* C8: a non-empty stage whose first token is exit, echo, type, pwd or cd resolves
\* to that builtin whatever PATH holds; any other stage resolves to
\* Executable(dir joined with the first token, remaining tokens) for the first
\* directory of PATH, in order, where that is a regular file, and to
\* InvalidCommand(first token) when there is no such directory.
C8_BuiltinsThenFirstOnPath ==
    [][(/\ pc = "parse_pipe"
        /\ Len(command_parts) >= 1
        /\ \A k \in 1..Len(command_parts) : command_parts[k] # T_pipe)
         => LET first == command_parts[1]
                rest == Tail(command_parts)
                c == Pipeline(command')
            IN  /\ first = S_exit => (pc' = "main" /\ c = Exit)
                /\ first = S_echo => (pc' = "main" /\ c = Echo(rest))
                /\ first = S_pwd => (pc' = "main" /\ c = PWD)
                /\ first = S_cd => (pc' = "main" /\ c = CD(rest))
                /\ (first = S_type /\ pc' = "main")
                      => (c.tag = "Type" /\ Len(c.cmds) = Len(rest))
                /\ (first \notin Builtins /\ path # <<>>)
                      => (pc' = "main" /\ c = FirstOnPath(command_parts, Env))]_vars

\* x is in both directories of PATH: the one of the first directory is taken
C8_Witness ==
    /\ pc = "main"
    /\ command_parts = <<T_x, T_d>>
    /\ {P_bx, P_ux} \subseteq files
    /\ command = Executable(P_bx, <<T_d>>)

-----------------------------------------------------------------------------
(* Properties of cd *)

ErrLine(text) == [stream |-> "err", to |-> Tty, text |-> text]

\* main is about to run a Cd that is the whole command
AtCd == pc = "main" /\ command.tag = "CD"

\* C9: a Cd with more than one argument writes one error line to stderr and
\* leaves the working directory as it is.
C9_CdManyArgsIsUsageError ==
    [][(AtCd /\ Len(command.args) > 1)
         => /\ cwd' = cwd
            /\ Len(written') = 1
            /\ written'[1].stream = "err"]_vars

\* the path is looked up from the working directory
CdPath(p) == IF p[1] = "/" THEN p ELSE cwd \o (IF cwd = P_root THEN <<>> ELSE <<"/">>) \o p

\* C10: a Cd with one path that does not exist writes
\* `cd: <path>: No such file or directory` to stderr, with one path that exists
\* and is no directory `cd: <path>: Not a directory`, and in both cases the working
\* directory stays; a Cd without arguments sets the working directory to HOME.
C10_CdErrorsAndHome ==
    [][AtCd =>
         LET a == command.args IN
         /\ (Len(a) = 1 /\ CdPath(a[1]) \notin files \cup Dirs)
               => /\ written' = <<ErrLine(<<"c", "d", ":", " ">> \o a[1] \o S_NoSuchFile)>>
                  /\ cwd' = cwd
         /\ (Len(a) = 1 /\ CdPath(a[1]) \in files \ Dirs)
               => /\ written' = <<ErrLine(<<"c", "d", ":", " ">> \o a[1] \o S_NotADir)>>
                  /\ cwd' = cwd
         /\ Len(a) = 0 => cwd' = home[1]]_vars

\* `cd /f` from /d: /f is a regular file
C10_Witness ==
    /\ pc = "loop"
    /\ command = CD(<<P_f>>)
    /\ cwd = P_d
    /\ written = <<ErrLine(<<"c", "d", ":", " ">> \o P_f \o S_NotADir)>>

-----------------------------------------------------------------------------
(* The execution of a Pipe node whose two stages are OS processes, step by step *)

PipeTree == Pipe(Executable(P_bx, <<>>), Executable(P_ux, <<>>))

othervars == <<envvars, cwd, files, line, tokvars, parsevars, written, opened, spawned>>

\* the engine allocates the OS pipe: SendEnd and ReceiveEnd
PipeAlloc ==
    /\ pc = "pipe"
    /\ pipe.phase = "enter"
    /\ pipe' = [pipe EXCEPT !.phase = "allocated"]
    /\ UNCHANGED <<pc, othervars>>

\* the engine starts the left stage with (inherited stdin, SendEnd, stderr)
StartLeft ==
    /\ pc = "pipe"
    /\ pipe.phase = "allocated"
    /\ pipe' = [pipe EXCEPT !.phase = "left_started", !.left = "running"]
    /\ UNCHANGED <<pc, othervars>>

\* mutant: the left stage is awaited to completion before the right one is started
StartRight_AfterLeft ==
    /\ pc = "pipe"
    /\ pipe.phase = "left_started"
    /\ pipe.left = "finished"
    /\ pipe' = [pipe EXCEPT !.phase = "both_started", !.right = "running"]
    /\ UNCHANGED <<pc, othervars>>

\* the engine starts the right stage with (ReceiveEnd, stdout, stderr), without
\* waiting for the left one
StartRight ==
    /\ pc = "pipe"
    /\ pipe.phase = "left_started"
    /\ pipe' = [pipe EXCEPT !.phase = "both_started", !.right = "running"]
    /\ UNCHANGED <<pc, othervars>>

\* the engine, blocked on the left stage, sees it finished
AwaitLeft ==
    /\ pc = "pipe"
    /\ pipe.phase = "both_started"
    /\ pipe.left = "finished"
    /\ pipe' = [pipe EXCEPT !.phase = "left_awaited"]
    /\ UNCHANGED <<pc, othervars>>

\* the engine, blocked on the right stage, sees it finished: the Pipe node is
\* complete and run returns to main
AwaitRight ==
    /\ pc = "pipe"
    /\ pipe.phase = "left_awaited"
    /\ pipe.right = "finished"
    /\ pipe' = [pipe EXCEPT !.phase = "done"]
    /\ pc' = "loop"
    /\ UNCHANGED othervars

\* the left process writes a chunk into the pipe; it blocks while the buffer is full
LeftWrite ==
    /\ pc = "pipe"
    /\ pipe.left = "running"
    /\ pipe.todo > 0
    /\ pipe.right # "finished"
    /\ pipe.buf < PipeCap
    /\ pipe' = [pipe EXCEPT !.buf = @ + 1, !.todo = @ - 1]
    /\ UNCHANGED <<pc, othervars>>

\* the left process exits: after its last chunk, or on a write into a pipe whose
\* reader is gone
LeftExit ==
    /\ pc = "pipe"
    /\ pipe.left = "running"
    /\ pipe.todo = 0 \/ pipe.right = "finished"
    /\ pipe' = [pipe EXCEPT !.left = "finished"]
    /\ UNCHANGED <<pc, othervars>>

\* the right process reads a chunk from the pipe
RightRead ==
    /\ pc = "pipe"
    /\ pipe.right = "running"
    /\ pipe.buf > 0
    /\ pipe' = [pipe EXCEPT !.buf = @ - 1]
    /\ UNCHANGED <<pc, othervars>>

\* the right process exits: at the end of its input (the pipe is empty and its
\* writer is gone) or, for a reader that does not read to the end, at any time
RightExit ==
    /\ pc = "pipe"
    /\ pipe.right = "running"
    /\ pipe.reader = "early" \/ (pipe.buf = 0 /\ pipe.left = "finished")
    /\ pipe' = [pipe EXCEPT !.right = "finished"]
    /\ UNCHANGED <<pc, othervars>>

\* the engine enters a Pipe node of two processes; the left one is to write
\* `total` chunks
InitPipe ==
    /\ pc = "pipe"
    /\ home = <<HomeU>>
    /\ path = <<DefaultPath>>
    /\ cwd = P_root
    /\ files = DefaultFiles
    /\ line = <<>>
    /\ input = <<>>
    /\ i = 1
    /\ output = <<T_x, T_pipe, T_x>>
    /\ current_string = <<>>
    /\ quote_state = "None"
    /\ escaped = FALSE
    /\ command_parts = output
    /\ out_path = RNone
    /\ err_path = RNone
    /\ command = PipeTree
    /\ written = <<>>
    /\ opened = <<>>
    /\ spawned = <<>>
    /\ \E n \in 0..MaxOutput, r \in {"eof", "early"} :
          pipe = [phase |-> "enter", left |-> "new", right |-> "new", buf |-> 0,
                  todo |-> n, total |-> n, reader |-> r]

NextPipe ==
    \/ PipeAlloc
    \/ StartLeft
    \/ StartRight
    \/ AwaitLeft
    \/ AwaitRight
    \/ LeftWrite
    \/ LeftExit
    \/ RightRead
    \/ RightExit

SpecPipe == InitPipe /\ [][NextPipe]_vars

-----------------------------------------------------------------------------
(* Properties of the working directory and of the recoverable errors *)

\* the nodes of a tree that are run
RECURSIVE Nodes(_)
Nodes(c) ==
    {c} \cup (IF c.tag = "Pipe" THEN Nodes(c.left) \cup Nodes(c.right)
              ELSE IF c.tag = "Redirect" THEN Nodes(c.inner)
              ELSE {})

\* the path a Cd node asks for
CdTarget(c) == IF Len(c.args) > 0 THEN c.args[1] ELSE home[1]

\* the step moves the working directory to the target of a Cd node of the tree
\* that has at most maxargs arguments
MovedByCd(maxargs) ==
    /\ pc = "main"
    /\ IsSome(command)
    /\ cwd' \in Dirs
    /\ \E n \in Nodes(command) :
          /\ n.tag = "CD"
          /\ Len(n.args) <= maxargs
          /\ \E w \in Dirs : cwd' = Resolve(w, CdTarget(n))

\* main is about to run a Pwd, alone or below a Redirect
AtPwd == pc = "main" /\ IsSome(command) /\ Pipeline(command).tag = "PWD"

\* C11: the working directory changes only in a step that runs a Cd that passes all
\* its checks (at most one argument, the path exists and is a directory), whatever
\* lines are run; every other step leaves it as it is, and a Pwd prints it.
C11_OnlySuccessfulCdMovesCwd ==
    [][/\ cwd' # cwd => MovedByCd(1)
       /\ (AtPwd /\ pc' = "loop")
             => (Len(written') = 1 /\ written'[1].stream = "out" /\ written'[1].text = cwd)]_vars

\* C11 with the argument count the code checks (more than two): only a Cd that passes
\* the checks the code makes moves the working directory.
C11_FrameUpToArgCount ==
    [][/\ cwd' # cwd => MovedByCd(2)
       /\ (AtPwd /\ pc' = "loop")
             => (Len(written') = 1 /\ written'[1].stream = "out" /\ written'[1].text = cwd)]_vars

\* the stderr handle the command is run with
BoundStderr ==
    IF command.tag = "Redirect" /\ is_some(command.err)
    THEN <<Resolve(cwd, command.err.path)>>
    ELSE Tty

\* a text of the form `<subject>: <reason>`
IsSubjectReason(text) ==
    \E k \in 2..(Len(text) - 2) : text[k] = ":" /\ text[k + 1] = " "

\* main is about to run a command that ends in a recoverable error: an unresolved
\* name, or a Cd with more than maxargs arguments or with one path that does not
\* exist or is no directory
AtRecoverableError(maxargs) ==
    /\ pc = "main"
    /\ IsSome(command)
    /\ LET c == Pipeline(command) IN
       \/ c.tag = "InvalidCommand"
       \/ /\ c.tag = "CD"
          /\ \/ Len(c.args) > maxargs
             \/ Len(c.args) \in 1..maxargs /\ CdPath(c.args[1]) \notin Dirs

\* exactly one line `<subject>: <reason>` goes to the bound stderr, nothing to
\* stdout, the working directory stays and the loop goes on to the next prompt
ReportedAndRecovered ==
    /\ pc' = "loop"
    /\ cwd' = cwd
    /\ Len(written') = 1
    /\ written'[1].stream = "err"
    /\ written'[1].to = BoundStderr
    /\ IsSubjectReason(written'[1].text)

\* C14: after every recoverable error (an unresolved command name, a Cd with more
\* than one argument, with a path that does not exist or with a path that is no
\* directory) exactly one line `<subject>: <reason>` is written to the bound
\* stderr, nothing to stdout, and the loop reads the next line.
C14_RecoverableErrorsAreReported ==
    [][AtRecoverableError(1) => ReportedAndRecovered]_vars

\* C14 with the argument count the code checks (more than two).
C14_ReportedUpToArgCount ==
    [][AtRecoverableError(2) => ReportedAndRecovered]_vars

-----------------------------------------------------------------------------
(* Properties of the fatal and of the empty cases of parse_input *)

\* parse_redirect is about to scan a sequence whose last token is an operator
TrailingOperator ==
    /\ pc = "parse_redirect"
    /\ command_parts # <<>>
    /\ command_parts[Len(command_parts)] \in RedirectOps

\* C12: when a redirect operator is the last token, parse_input fails fatally: no
\* tree is produced, nothing is executed and the interpreter aborts for good.
C12_TrailingOperatorIsFatal ==
    [][/\ TrailingOperator
          => /\ pc' = "panicked"
             /\ command' = NoneCmd
             /\ UNCHANGED <<cwd, files, written, opened, spawned>>
       /\ pc = "panicked" => UNCHANGED vars]_vars

\* `x >` has made the scan panic
C12_Witness ==
    /\ pc = "panicked"
    /\ command_parts = <<T_x, T_gt>>
    /\ command = NoneCmd
    /\ written = <<>> /\ spawned = <<>>

\* C13: whenever the redirection-stripped sequence is empty (a blank line, or a line
\* made only of redirect operators and their targets), parsing yields no command,
\* and the caller executes nothing, does not abort and goes on to the next prompt.
C13_EmptyStrippedYieldsNoCommand ==
    [][/\ (pc = "parse_pipe" /\ command_parts = <<>>)
          => (pc' = "main" /\ command' = NoneCmd)
       /\ (pc = "main" /\ ~IsSome(command))
          => (pc' = "loop" /\ UNCHANGED <<cwd, files, written, opened, spawned>>)]_vars

\* C13 for the lines without a redirect operator only: an empty sequence with no
\* spec set yields no command and the caller goes on to the next prompt.
C13_BlankLineYieldsNoCommand ==
    [][/\ (pc = "parse_pipe" /\ command_parts = <<>> /\ ~is_some(out_path) /\ ~is_some(err_path))
          => (pc' = "main" /\ command' = NoneCmd)
       /\ (pc = "main" /\ ~IsSome(command))
          => (pc' = "loop" /\ UNCHANGED <<cwd, files, written, opened, spawned>>)]_vars

\* the scan that consumes an operator and the token after it as a pair and resumes
\* after the pair
RECURSIVE PairScan(_, _, _)
PairScan(parts, k, acc) ==
    IF k > Len(parts) THEN acc
    ELSE IF parts[k] \notin RedirectOps
    THEN PairScan(parts, k + 1, [acc EXCEPT !.kept = Append(@, parts[k])])
    ELSE IF k + 1 > Len(parts) THEN [acc EXCEPT !.panic = TRUE]
    ELSE LET nxt == parts[k + 1]
             a == CASE parts[k] \in {T_gt, T_1gt} -> [acc EXCEPT !.out = Truncate(nxt)]
                    [] parts[k] \in {T_gtgt, T_1gtgt} -> [acc EXCEPT !.out = AppendTo(nxt)]
                    [] parts[k] = T_2gt -> [acc EXCEPT !.err = Truncate(nxt)]
                    [] OTHER -> [acc EXCEPT !.err = AppendTo(nxt)]
         IN  PairScan(parts, k + 2, a)

PairScanInit == [out |-> RNone, err |-> RNone, kept |-> <<>>, panic |-> FALSE]

\* C17: the extractor consumes an operator and the token after it as a pair, and the
\* token after an operator is only a target, never an operator itself: the scan
\* resumes after the target (`cmd > 2> x` gives out-spec Truncate("2>"), err-spec
\* None and leaves x as an argument).
C17_TargetIsNeverAnOperator ==
    [][(pc = "parse_redirect" /\ ~TrailingOperator)
         => LET r == PairScan(command_parts, 1, PairScanInit) IN
            /\ pc' = "parse_pipe"
            /\ out_path' = r.out
            /\ err_path' = r.err
            /\ command_parts' = r.kept]_vars

\* the sequence has a "|" with an empty stage on one of its sides
HasEmptyStage(parts) ==
    (\E k \in 1..Len(parts) : parts[k] = T_pipe) /\ ~AllStagesNonEmpty(parts)

\* every redirect operator has a token after it
OperatorsHaveFollowers(parts) ==
    \A k \in 1..Len(parts) : parts[k] \in RedirectOps => k < Len(parts)

\* C20: a stripped sequence with a "|" that has an empty stage on a side (a leading,
\* a trailing or two adjacent "|") makes parse_input abort with no tree; and when
\* every redirect operator has a token after it, every pipe stage is non-empty and
\* HOME and PATH are set, parse_input returns a tree without aborting.
C20_EmptyStageAbortsElseTree ==
    [][/\ (pc = "parse_pipe" /\ HasEmptyStage(command_parts))
          => (pc' = "panicked" /\ command' = NoneCmd)
       /\ (pc = "parse_redirect" /\ OperatorsHaveFollowers(command_parts))
          => pc' = "parse_pipe"
       /\ (pc = "parse_pipe" /\ AllStagesNonEmpty(command_parts) /\ home # <<>> /\ path # <<>>)
          => (pc' = "main" /\ IsSome(command') /\ command'.tag # "Panic")]_vars

\* `x | | echo` has made parse_pipe panic
C20_Witness ==
    /\ pc = "panicked"
    /\ command_parts = <<T_x, T_pipe, T_pipe, S_echo>>
    /\ command = NoneCmd

\* `x | echo > x` has been parsed to a tree
C20_WitnessTree ==
    /\ pc = "main"
    /\ output = <<T_x, T_pipe, S_echo, T_gt, T_x>>
    /\ command.tag = "Redirect"

-----------------------------------------------------------------------------
(* Properties of type *)

HasSlash(t) == \E k \in 1..Len(t) : t[k] = "/"

\* the line type is to print for the target t
IsTypeLine(text, t, env) ==
    IF t \in Builtins THEN text = t \o S_IsBuiltin
    ELSE IF PathHits(t, env) = {} THEN text = t \o S_NotFound
    ELSE LET full == Join(SplitPaths(env.path[1])[Min(PathHits(t, env))], t)
         IN  /\ text = FileName(full) \o S_Is \o full
             /\ ~HasSlash(t) => FileName(full) = t

\* main is about to run the Type of a line `type t1 .. tn`
AtType == pc = "main" /\ IsSome(command) /\ command.tag = "Type" /\ output[1] = S_type

\* C16: type resolves each of its targets on its own, as a command without
\* arguments, and never executes it; running Type writes one line per target to
\* stdout, in the order of the targets: `<name> is a shell builtin` for exit, echo,
\* type, pwd and cd, `<name> is <fullPath>` for a name found on PATH and
\* `<name>: not found` for any other.
C16_TypeReportsEachTarget ==
    [][AtType
         => /\ Len(command.cmds) = Len(output) - 1
            /\ \A k \in 1..Len(command.cmds) :
                  command.cmds[k].tag = "Executable" => command.cmds[k].args = <<>>
            /\ pc' = "loop"
            /\ spawned' = <<>>
            /\ UNCHANGED <<cwd, files>>
            /\ Len(written') = Len(output) - 1
            /\ \A k \in 1..Len(written') :
                  /\ written'[k].stream = "out"
                  /\ written'[k].to = Tty
                  /\ IsTypeLine(written'[k].text, output[k + 1], Env)]_vars

\* `type cd x y` has printed its three lines: a builtin (although /u/cd is a file),
\* the x of the first directory of PATH, and a name that is not found
C16_Witness ==
    /\ pc = "loop"
    /\ output = <<S_type, S_cd, T_x, T_y>>
    /\ files = {P_f, P_ucd, P_bx, P_ux}
    /\ Len(written) = 3
    /\ written[1].text = S_cd \o S_IsBuiltin
    /\ written[2].text = T_x \o S_Is \o P_bx
    /\ written[3].text = T_y \o S_NotFound
    /\ spawned = <<>>

-----------------------------------------------------------------------------
(* Properties of the end of transform_input *)

\* a step of transform_input can be taken
TokenizerCanStep == ENABLED (CharNone \/ CharSingle \/ CharDouble \/ TransformEnd)

\* C18: with HOME set the tokenizer ends with a token sequence on every line,
\* whatever state it is in at the end of the line: every character is consumed by
\* one step, and at the end of the input, also inside quotes or after a backslash,
\* the characters accumulated so far are flushed as the last token if there are
\* any and the sequence is returned without an error.
C18_TokenizerAlwaysEnds ==
    /\ [](pc = "chars" => (i <= Len(input) + 1 /\ TokenizerCanStep))
    /\ [][/\ (pc = "transform_input" /\ home # <<>>) => pc' = "chars"
          /\ (pc = "chars" /\ i <= Len(input)) => (pc' = "chars" /\ i' = i + 1)
          /\ (pc = "chars" /\ i > Len(input))
                => /\ pc' = "parse_redirect"
                   /\ output' = output \o (IF current_string # <<>>
                                           THEN <<current_string>> ELSE <<>>)
                   /\ command_parts' = output']_vars

\* `c 'd` has ended inside the quotes with the tokens c and d
C18_Witness ==
    /\ pc = "parse_redirect"
    /\ line = <<"c", SP, SQ, "d">>
    /\ quote_state = "Single"
    /\ output = <<<<"c">>, <<"d">>>>

\* `c "\` has ended inside the quotes after a backslash, with one token
C18_WitnessEscaped ==
    /\ pc = "parse_redirect"
    /\ line = <<"c", SP, DQ, BSL>>
    /\ quote_state = "Double"
    /\ escaped
    /\ output = <<<<"c">>>>

-----------------------------------------------------------------------------
(* Properties of quoted operators *)

\* C19: a token is an operator by its text after quote removal alone: the tree is a
\* function of the token sequence (so two lines with the same tokens give the same
\* tree), every token that reads >, 1>, >>, 1>>, 2> or 2>> sets a spec and every
\* "|" left after the extraction splits a pipeline, also when it was written inside
\* quotes or after a backslash: `echo '>' f` gives Redirect(Truncate(f), None,
\* Echo([])).
C19_OperatorsByTextOnly ==
    /\ pc \in {"parse_pipe", "main"}
          => /\ is_some(out_path) <=> (\E k \in 1..Len(output) : output[k] \in OutOps)
             /\ is_some(err_path) <=> (\E k \in 1..Len(output) : output[k] \in ErrOps)
             /\ \A k \in 1..Len(command_parts) : command_parts[k] \notin RedirectOps
    /\ pc = "main"
          => /\ command = TreeOf(output, Env)
             /\ IsSome(command)
                   => (Pipeline(command).tag = "Pipe"
                          <=> \E k \in 1..Len(command_parts) : command_parts[k] = T_pipe)
    /\ (pc = "main" /\ line \in QuotedGtLines \cup {PlainGtLine})
          => command = Redirect(Truncate(<<"f">>), RNone, Echo(<<>>))
    /\ (pc = "main" /\ line \in {PlainPipeLine, QuotedPipeLine})
          => command = Pipe(Executable(P_bx, <<>>), InvalidCommand(<<"c">>))

\* `echo '>' f` has been parsed: the quoted > is the operator and f its target
C19_Witness ==
    /\ pc = "main"
    /\ line = EchoTo(<<SQ, ">", SQ>>)
    /\ output = <<S_echo, T_gt, <<"f">>>>
    /\ command = Redirect(Truncate(<<"f">>), RNone, Echo(<<>>))

\* `x "|" c` has been parsed to a Pipe
C19_WitnessPipe ==
    /\ pc = "main"
    /\ line = QuotedPipeLine
    /\ command.tag = "Pipe"

-----------------------------------------------------------------------------
(* Properties of the execution of a Pipe node *)

\* the engine is blocked waiting for a stage to finish
EngineWaits == pc = "pipe" /\ pipe.phase \in {"both_started", "left_awaited"}

\* C15: in the execution of Pipe(left, right) both stages have been started before
\* the engine blocks waiting for either of them, the Pipe node completes only when
\* both stages have finished, and the execution cannot get stuck before that, also
\* when the left stage writes more than the buffer of the pipe holds.
C15_BothStartedBeforeWait ==
    /\ EngineWaits => (pipe.left # "new" /\ pipe.right # "new")
    /\ pipe.phase = "done" => (pipe.left = "finished" /\ pipe.right = "finished")
    /\ (pc = "pipe" /\ pipe.phase # "done") => ENABLED NextPipe

\* a Pipe node whose left stage wrote more than the pipe holds, all of it read by
\* the right stage, has completed
C15_Witness ==
    /\ pipe.phase = "done"
    /\ pipe.total > PipeCap
    /\ pipe.reader = "eof"
    /\ pipe.todo = 0 /\ pipe.buf = 0

====
